---- MODULE Spec2Model ----
(***************************************************************************)
(* Model of the executor-stack instrumentation layer of                    *)
(* src/20190924-tensorflow-federated: the recursion-strategy registry, the *)
(* executor-stack visitor, the monkey-patching (tracing) wrappers with the *)
(* call-level counter, format_object, and the factory decorators.          *)
(***************************************************************************)
EXTENDS Integers, Sequences, FiniteSets, TLC

(* ---------------------------------------------------------------------- *)
(* Bounds                                                                  *)
(* ---------------------------------------------------------------------- *)

\* largest num_clients handed to a stack factory
MaxClients == 2

\* largest number of executor operations invoked after the stack is built
MaxCalls == 3

\* largest number of operations the application calls on the root
MaxChains == 1

\* largest number of operation chains suspended at the same time
MaxTasks == 2

(* ---------------------------------------------------------------------- *)
(* Executor stacks (custom_executor_stacks.py)                             *)
(* ---------------------------------------------------------------------- *)

\* an executor without the attribute in question
NoExecutor == 0

NoTargets == [None |-> << >>, SERVER |-> << >>, CLIENTS |-> << >>]

\* an executor object: its runtime type and the attributes the recursion
\* strategies read
Executor(kind, target, targets, parent, childs) ==
  [kind |-> kind, _target_executor |-> target, _target_executors |-> targets,
   _parent_executor |-> parent, _child_executors |-> childs]

EagerTFExecutor == Executor("EagerTFExecutor", NoExecutor, NoTargets, NoExecutor, << >>)

ReferenceResolvingExecutor(ex) ==
  Executor("ReferenceResolvingExecutor", ex, NoTargets, NoExecutor, << >>)

ConcurrentExecutor(ex) ==
  Executor("ConcurrentExecutor", ex, NoTargets, NoExecutor, << >>)

SecureFederatedExecutor(ex) ==
  Executor("SecureFederatedExecutor", ex, NoTargets, NoExecutor, << >>)

FederatingExecutor(executor_dict) ==
  Executor("FederatingExecutor", NoExecutor, executor_dict, NoExecutor, << >>)

ComposingExecutor(parent, childs) ==
  Executor("ComposingExecutor", NoExecutor, NoTargets, parent, childs)

\* _create_bottom_stack appended to the objects created so far: an
\* EagerTFExecutor, then the ReferenceResolvingExecutor of _complete_stack
\* around it.  An executor's identity is its position in creation order.
_create_bottom_stack(objs) ==
  Append(Append(objs, EagerTFExecutor), ReferenceResolvingExecutor(Len(objs) + 1))

RECURSIVE BottomStacks(_, _)
BottomStacks(objs, n) ==
  IF n = 0 THEN objs ELSE BottomStacks(_create_bottom_stack(objs), n - 1)

\* executor_dict of executor_fn: the dict display evaluates the CLIENTS list
\* first, then the SERVER stack, then the None stack
executor_dict(num_clients) ==
  [CLIENTS |-> [i \in 1..num_clients |-> 2 * i],
   SERVER |-> << 2 * num_clients + 2 >>,
   None |-> << 2 * num_clients + 4 >>]

builtin_executor_stack(num_clients) ==
  LET bottoms == BottomStacks(<< >>, num_clients + 2)
      fed == Append(bottoms, FederatingExecutor(executor_dict(num_clients)))
  IN  Append(fed, ReferenceResolvingExecutor(Len(fed)))

secure_executor_stack(num_clients) ==
  LET bottoms == BottomStacks(<< >>, num_clients + 2)
      fed == Append(bottoms, FederatingExecutor(executor_dict(num_clients)))
      sec == Append(fed, SecureFederatedExecutor(Len(fed)))
  IN  Append(sec, ReferenceResolvingExecutor(Len(sec)))

\* a stack of the framework's own factory, which holds an executor type
\* logging_helpers registers no recursion strategy for: the federated stack
\* with the ConcurrentExecutor layer of _complete_stack around the
\* FederatingExecutor
framework_executor_stack(num_clients) ==
  LET bottoms == BottomStacks(<< >>, num_clients + 2)
      fed == Append(bottoms, FederatingExecutor(executor_dict(num_clients)))
      conc == Append(fed, ConcurrentExecutor(Len(fed)))
  IN  Append(conc, ReferenceResolvingExecutor(Len(conc)))

\* a ComposingExecutor over num_clients child stacks; its parent executor is
\* created after the children
composing_executor_stack(num_clients) ==
  LET bottoms == BottomStacks(<< >>, num_clients)
      par == Append(bottoms, EagerTFExecutor)
  IN  Append(par, ComposingExecutor(Len(par), [i \in 1..num_clients |-> 2 * i]))

StackKinds == {"builtin", "secure", "framework", "composing"}

BuildStack(which, num_clients) ==
  CASE which = "builtin" -> builtin_executor_stack(num_clients)
    [] which = "secure" -> secure_executor_stack(num_clients)
    [] which = "framework" -> framework_executor_stack(num_clients)
    [] which = "composing" -> composing_executor_stack(num_clients)

\* the stacks the factories of the repository can hand to the decorators
ExecutorStacks ==
  { BuildStack(w, n) : w \in StackKinds, n \in 0..MaxClients }

(* ---------------------------------------------------------------------- *)
(* Recursion strategies and the visitor (logging_helpers.py 28-50)         *)
(* ---------------------------------------------------------------------- *)

\* the keys of VISIT_RECURSION_STRATEGIES after the module-level
\* registrations of logging_helpers.py and secure_federated_executor.py
VISIT_RECURSION_STRATEGIES ==
  {"CachingExecutor", "ComposingExecutor", "ThreadDelegatingExecutor",
   "EagerTFExecutor", "FederatingExecutor", "ReferenceResolvingExecutor",
   "RemoteExecutor", "TransformingExecutor", "SecureFederatedExecutor"}

FederatingClientsFirst(ex) ==
  ex._target_executors.CLIENTS \o ex._target_executors.SERVER
    \o ex._target_executors.None

\* lambda ex: ex._target_executors[None] + [tff.SERVER] + [tff.CLIENTS]
FederatingStrategy(ex) ==
  ex._target_executors.None \o ex._target_executors.SERVER
    \o ex._target_executors.CLIENTS

ComposingStrategy(ex) == << ex._parent_executor >> \o ex._child_executors

TargetStrategy(ex) == << ex._target_executor >>

\* VISIT_RECURSION_STRATEGIES[type(ex)](ex); only called on registered types
RecursionStrategy(ex) ==
  CASE ex.kind \in {"EagerTFExecutor", "RemoteExecutor"} -> << >>
    [] ex.kind = "FederatingExecutor" -> FederatingStrategy(ex)
    [] ex.kind = "ComposingExecutor" -> ComposingStrategy(ex)
    [] OTHER -> TargetStrategy(ex)

LookupOrLeaf(ex) ==
  IF ex.kind \in VISIT_RECURSION_STRATEGIES
    THEN [raised |-> FALSE, children |-> RecursionStrategy(ex)]
    ELSE [raised |-> FALSE, children |-> << >>]

\* line 47 of visit_executor_stack: the dict lookup raises KeyError for a
\* type without a strategy, otherwise the strategy gives the children
LookupChildren(ex) ==
  IF ex.kind \in VISIT_RECURSION_STRATEGIES
    THEN [raised |-> FALSE, children |-> RecursionStrategy(ex)]
    ELSE [raised |-> TRUE, children |-> << >>]

(* ---------------------------------------------------------------------- *)
(* Values and format_object (logging_helpers.py 53-63, 256-300)            *)
(* ---------------------------------------------------------------------- *)

\* x.type_signature of a value that has no such attribute
Absent == "absent"

\* a Python value as the formatting strategies see it: its runtime type,
\* str(x), id(x), str(x.type_signature) or Absent, its elements (of a list
\* or tuple, the _value of a SecureFederatedExecutorValue, the
\* _element_array of an AnonymousTuple), x.uri or WhichOneof(...), and the
\* _name_array of an AnonymousTuple
Value(ty, str, id, sig, items, attr, names) ==
  [ty |-> ty, str |-> str, id |-> id, sig |-> sig, items |-> items,
   attr |-> attr, names |-> names]

NoneValue == Value("NoneType", "None", "0", Absent, << >>, "", << >>)
FloatValue == Value("float", "5.0", "1", Absent, << >>, "", << >>)
IntValue == Value("int", "0", "2", Absent, << >>, "", << >>)
EmptyStrValue == Value("str", "", "3", Absent, << >>, "", << >>)
TensorTypeValue == Value("TensorType", "float32", "4", Absent, << >>, "", << >>)
ListValue == Value("list", "[5.0, None]", "5", Absent, << FloatValue, NoneValue >>, "", << >>)
TupleValue ==
  Value("tuple", "(5.0, [5.0, None])", "6", Absent, << FloatValue, ListValue >>, "", << >>)
IntrinsicDefValue ==
  Value("IntrinsicDef", "federated_mean", "7", "(float32@CLIENTS -> float32@SERVER)",
        << >>, "federated_mean", << >>)

\* the result an executor of the given type creates: its own ExecutorValue
\* type, with a type signature
ExecutorValue(ty, id) == Value(ty, "<" \o ty \o ">", id, "float32", << >>, "", << >>)

\* SecureFederatedExecutorValue(value): type_signature is a property that
\* reads self._value.type_signature (secure_federated_executor.py 11-23)
SecureFederatedExecutorValue(value) ==
  Value("SecureFederatedExecutorValue", "<SecureFederatedExecutorValue>",
        "9" \o value.id, value.sig, << value >>, "", << >>)

\* the keys of FORMATTING_STRATEGIES after the module-level registrations
FORMATTING_STRATEGIES ==
  {"FederatingExecutor", "FederatingExecutorValue", "ReferenceResolvingExecutor",
   "ReferenceResolvingExecutorValue", "ExecutionContextValue", "EagerValue",
   "TensorType", "FederatedType", "FunctionType", "float", "NoneType", "list",
   "tuple", "EagerTensor", "IntrinsicDef", "ComputationImpl", "Computation",
   "AnonymousTuple", "SecureFederatedExecutorValue"}

Str(s) == [tag |-> "str", s |-> s]
Raise(exc, x) == [tag |-> "raise", exc |-> exc, value |-> x.ty]

TypeName(ty) == "<class '" \o ty \o "'>"

StrOnly(x) == Str(x.str)

\* DEFAULT_STRATEGY = lambda x: "{} {}".format(x, type(x))
DEFAULT_STRATEGY(x) == Str(x.str \o " " \o TypeName(x.ty))

\* "<{} @{} : {}>".format(type(x).__name__, id(x), str(x.type_signature))
SignatureStrategy(x) ==
  IF x.sig = Absent THEN Raise("AttributeError", x)
  ELSE Str("<" \o x.ty \o " @" \o x.id \o " : " \o x.sig \o ">")

\* "<IntrinsicDef {} {} @{}>".format(x.uri, x.type_signature, id(x))
IntrinsicDefStrategy(x) ==
  IF x.sig = Absent THEN Raise("AttributeError", x)
  ELSE Str("<IntrinsicDef " \o x.attr \o " " \o x.sig \o " @" \o x.id \o ">")

\* ComputationImpl: "<ComputationImpl {} @{} : {}>"; Computation (the proto):
\* "<ComputationPb {} @{} : {}>"
ComputationStrategy(x) ==
  IF x.sig = Absent THEN Raise("AttributeError", x)
  ELSE Str("<" \o (IF x.ty = "Computation" THEN "ComputationPb" ELSE x.ty) \o " "
           \o x.attr \o " @" \o x.id \o " : " \o x.sig \o ">")

\* the first failure among the formatted elements, if any
FirstRaise(fs) ==
  IF \E i \in DOMAIN fs : fs[i].tag = "raise"
    THEN fs[CHOOSE i \in DOMAIN fs :
                /\ fs[i].tag = "raise"
                /\ \A j \in DOMAIN fs : fs[j].tag = "raise" => i <= j]
    ELSE Str("")

Join(fs, tag) ==
  IF FirstRaise(fs).tag = "raise" THEN FirstRaise(fs)
  ELSE [tag |-> tag, items |-> fs]

RECURSIVE JoinNamed(_, _)
\* ", ".join("{}: {}".format(n, format_object(v)) ...) of format_anon_tuple;
\* a formatted element that is not a string is shown by its repr
JoinNamed(names, fs) ==
  IF fs = << >> THEN ""
  ELSE names[1] \o ": " \o (IF fs[1].tag = "str" THEN fs[1].s ELSE "[...]")
       \o (IF Len(fs) > 1 THEN ", " ELSE "") \o JoinNamed(Tail(names), Tail(fs))

RECURSIVE format_object(_)
\* strategy = FORMATTING_STRATEGIES.get(type(x), DEFAULT_STRATEGY); strategy(x)
format_object(x) ==
  CASE x.ty \notin FORMATTING_STRATEGIES -> DEFAULT_STRATEGY(x)
    [] x.ty \in {"TensorType", "FederatedType", "FunctionType"} ->
         Str("<" \o x.str \o ">")
    [] x.ty = "float" -> Str("<" \o x.str \o " : float>")
    [] x.ty = "NoneType" -> Str("-")
    [] x.ty = "list" ->
         Join([i \in DOMAIN x.items |-> format_object(x.items[i])], "list")
    [] x.ty = "tuple" ->
         Join([i \in DOMAIN x.items |-> format_object(x.items[i])], "tuple")
    [] x.ty = "EagerTensor" -> Str("<" \o x.ty \o " @" \o x.id \o ">")
    [] x.ty = "IntrinsicDef" -> IntrinsicDefStrategy(x)
    [] x.ty \in {"ComputationImpl", "Computation"} -> ComputationStrategy(x)
    [] x.ty = "AnonymousTuple" ->
         LET fs == [i \in DOMAIN x.items |-> format_object(x.items[i])]
         IN  IF FirstRaise(fs).tag = "raise" THEN FirstRaise(fs)
             ELSE Str("<AnonymousTuple @" \o x.id \o " : (" \o JoinNamed(x.names, fs) \o ")>")
    [] OTHER -> SignatureStrategy(x)

(* ---------------------------------------------------------------------- *)
(* State                                                                   *)
(* ---------------------------------------------------------------------- *)

VARIABLES
  executor_stack,           \* the objects of the stack executor_fn built; the root is the last
  passes,                   \* the passes the installed factory runs on a new stack, in order
  passno,                   \* the number of the pass running (or last run)
  visit,                    \* the activation records of visit_executor_stack
  level,                    \* visitor.level of the visitor of the running pass
  events,                   \* the visitor callbacks made so far, in order
  setup,                    \* "building", "ready" (the factory returned), "failed" (it raised)
  stack_level,              \* executor.stack_level, -1 while the attribute is not set
  method,                   \* executor.<operation>: 0 the class's own method, k > 0 the k-th wrapper
  real,                     \* executor._real_<operation>, -1 while the attribute is not set
  _CURRENT_INDENT_STRATEGY,
  _CURRENT_CALL_LEVEL,
  out,                      \* the lines printed so far
  frames,                   \* the coroutines of the running operation chain, innermost last
  ret,                      \* what the coroutine that just finished returned or raised
  ncalls,                   \* executor operations invoked so far
  nchains,                  \* operations the application has called on the root
  pre,                      \* _CURRENT_CALL_LEVEL when the outermost operation was called
  delegFailed,              \* some wrapper of the chain saw its _real_ operation raise
  last,                     \* the wrapper invocation that finished last
  parked,                   \* the operation chains suspended at an await
  lastSet,                  \* the last call of set_indent_strategy and its outcome
  outer                     \* the running call of the application: _CURRENT_CALL_LEVEL when it
                            \* was made, and whether an awaited operation has raised since

vars ==
  << executor_stack, passes, passno, visit, level, events, setup, stack_level,
     method, real, _CURRENT_INDENT_STRATEGY, _CURRENT_CALL_LEVEL, out, frames,
     ret, ncalls, nchains, pre, delegFailed, last, parked, lastSet, outer >>

setupVars == << passes, passno, visit, level, events, setup, stack_level, method, real >>
runVars == << frames, ret, ncalls, nchains, pre, delegFailed, last >>
otherVars == << parked, lastSet, outer >>

Executors == DOMAIN executor_stack
Root == Len(executor_stack)

Operations == {"create_value", "create_call", "create_tuple", "create_selection"}

\* the operations whose wrapper moves _CURRENT_CALL_LEVEL (lines 113-116, 125-128)
CountedOperations == {"create_value", "create_call"}

\* the executors an executor holds in its attributes
Targets(ex) ==
  ({ ex._target_executor, ex._parent_executor } \ {NoExecutor})
    \cup { ex._child_executors[i] : i \in DOMAIN ex._child_executors }
    \cup { ex._target_executors.None[i] : i \in DOMAIN ex._target_executors.None }
    \cup { ex._target_executors.SERVER[i] : i \in DOMAIN ex._target_executors.SERVER }
    \cup { ex._target_executors.CLIENTS[i] : i \in DOMAIN ex._target_executors.CLIENTS }

(* ---------------------------------------------------------------------- *)
(* set_default_executor and the factory decorators (lines 213-236)         *)
(* ---------------------------------------------------------------------- *)

DumpThenPatch == << "dump", "patch" >>

\* set_default_executor wraps executor_fn in monkey_patching_executor_fn and
\* that in dumping_executor_fn: a call of the installed factory builds the
\* stack, patches it, then prints "Created executor stack" and dumps it
set_default_executor == << "patch", "dump" >>

\* a printed line: the indentation, type name and hash of prefix, the
\* operation, "call" or "retr", the values formatted and their formatted
\* forms; inv is the wrapper invocation that printed it and encl the wrapper
\* invocation that one runs inside (0 for none)
Line(indent, ty, hash, op, phase, args, text, inv, encl) ==
  [indent |-> indent, type |-> ty, hash |-> hash, op |-> op, phase |-> phase,
   args |-> args, text |-> text, inv |-> inv, encl |-> encl]

\* print("Created executor stack") of dump_executor_fn
CreatedLine == Line(0, "Created executor stack", 0, "dump_executor_fn", "", << >>, << >>, 0, 0)

DumpLineLevelKept(n) ==
  Line(level + passno - 1, executor_stack[n].kind, n, "dump_executor_stack", "", << >>, << >>, 0, 0)

\* the line DumpVisitor.visit_before prints
DumpLine(n) ==
  Line(level, executor_stack[n].kind, n, "dump_executor_stack", "", << >>, << >>, 0, 0)

Activation(n) == [ex |-> n, pc |-> "before", children |-> << >>, i |-> 1]

Event(cb, n) == [pass |-> passno, cb |-> cb, ex |-> n]

\* set_indent_strategy has not been called since the import
NotSet == [strategy |-> "", raised |-> FALSE]

\* set_indent_strategy(IndentStrategy.CALL_LEVEL) of the import (line 91)
ImportedStrategy == "CALL_LEVEL"

\* the state when a factory decorated with the passes ps has been handed a
\* mapping and its innermost executor_fn has built the stack, with the
\* indentation strategy the application has chosen before
InstalledOn(stacks, ps, strategy) ==
  /\ executor_stack \in stacks
  /\ passes = ps
  /\ passno = 0
  /\ visit = << >>
  /\ level = 0
  /\ events = << >>
  /\ setup = "building"
  /\ stack_level = [n \in DOMAIN executor_stack |-> -1]
  /\ method = [n \in DOMAIN executor_stack |-> [o \in Operations |-> 0]]
  /\ real = [n \in DOMAIN executor_stack |-> [o \in Operations |-> -1]]
  /\ _CURRENT_INDENT_STRATEGY = strategy
  /\ _CURRENT_CALL_LEVEL = 0
  /\ out = << >>
  /\ frames = << >>
  /\ ret = [kind |-> "none", val |-> NoneValue, exc |-> "", origin |-> "", at |-> ""]
  /\ ncalls = 0
  /\ nchains = 0
  /\ pre = 0
  /\ delegFailed = FALSE
  /\ last = [inv |-> 0]
  /\ parked = {}
  /\ outer = [pre |-> 0, raised |-> FALSE]
  /\ lastSet = IF strategy = ImportedStrategy THEN NotSet
               ELSE [strategy |-> strategy, raised |-> FALSE]

\* the same for the stacks the factories of the repository build
Installed(ps, strategy) == InstalledOn(ExecutorStacks, ps, strategy)

Init == Installed(set_default_executor, ImportedStrategy)

\* monkey_patch_executor_stack / dump_executor_stack: a fresh visitor with
\* level = 0 starts visit_executor_stack at the root
BeginPass ==
  /\ setup = "building"
  /\ visit = << >>
  /\ passno < Len(passes)
  /\ passno' = passno + 1
  /\ level' = 0
  /\ visit' = << Activation(Root) >>
  /\ out' = IF passes[passno + 1] = "dump" THEN Append(out, CreatedLine) ELSE out
  /\ UNCHANGED << executor_stack, passes, events, setup, stack_level, method, real,
                  _CURRENT_INDENT_STRATEGY, _CURRENT_CALL_LEVEL >>
  /\ UNCHANGED runVars
  /\ UNCHANGED otherVars

WrappedTwice(n) == [method EXCEPT ![n] = [o \in Operations |-> method[n][o] + 2]]

RealAfterWrapper(n) == [real EXCEPT ![n] = [o \in Operations |-> method[n][o] + 1]]

RealKeptIfPatched(n) ==
  IF \A o \in Operations : real[n][o] = -1 THEN [real EXCEPT ![n] = method[n]] ELSE real

\* monkey_patch_executor: for each operation, _real_<op> = executor.<op>,
\* then executor.<op> = a new wrapper
PatchedReal(n) == [real EXCEPT ![n] = method[n]]

PatchedMethod(n) == [method EXCEPT ![n] = [o \in Operations |-> method[n][o] + 1]]

SkipFirstChild(i) == i + 2

ChildFromEnd(children, i) == children[Len(children) + 1 - i]

\* for child in children: the i-th child the loop visits
ChildAt(children, i) == children[i]

\* the for loop of visit_executor_stack moves to the next child
NextChild(i) == i + 1

\* lines 46-47: visitor.visit_before(executor_stack), then the lookup of the
\* recursion strategy, which raises KeyError out of every activation
VisitBefore ==
  /\ visit # << >>
  /\ LET top == visit[Len(visit)]
         n == top.ex
         found == LookupChildren(executor_stack[n])
     IN  /\ top.pc = "before"
         /\ events' = Append(events, Event("before", n))
         /\ IF passes[passno] = "patch"
              THEN /\ stack_level' = [stack_level EXCEPT ![n] = level]
                   /\ real' = PatchedReal(n)
                   /\ method' = PatchedMethod(n)
                   /\ out' = out
              ELSE /\ out' = Append(out, DumpLine(n))
                   /\ UNCHANGED << stack_level, real, method >>
         /\ level' = level + 1
         /\ IF found.raised
              THEN /\ visit' = << >>
                   /\ setup' = "failed"
              ELSE /\ visit' = [visit EXCEPT ![Len(visit)] =
                                  [top EXCEPT !.pc = "children", !.children = found.children]]
                   /\ setup' = setup
  /\ UNCHANGED << executor_stack, passes, passno, _CURRENT_INDENT_STRATEGY,
                  _CURRENT_CALL_LEVEL >>
  /\ UNCHANGED runVars
  /\ UNCHANGED otherVars

\* lines 48-49: visit_executor_stack(visitor, child) for the next child
VisitChild ==
  /\ visit # << >>
  /\ LET top == visit[Len(visit)]
     IN  /\ top.pc = "children"
         /\ top.i <= Len(top.children)
         /\ visit' = Append([visit EXCEPT ![Len(visit)] = [top EXCEPT !.i = NextChild(top.i)]],
                            Activation(ChildAt(top.children, top.i)))
  /\ UNCHANGED << executor_stack, passes, passno, level, events, setup, stack_level,
                  method, real, _CURRENT_INDENT_STRATEGY, _CURRENT_CALL_LEVEL, out >>
  /\ UNCHANGED runVars
  /\ UNCHANGED otherVars

LevelKept(lv) == lv

\* visit_after of MonkeyPatchVisitor and DumpVisitor: self.level -= 1
LevelAfter(lv) == lv - 1

\* line 50: visitor.visit_after(executor_stack) and the return; the return
\* of the root's activation ends the pass, the return of the last pass
\* hands the stack to the execution context
VisitAfter ==
  /\ visit # << >>
  /\ LET top == visit[Len(visit)]
     IN  /\ top.pc = "children"
         /\ top.i > Len(top.children)
         /\ events' = Append(events, Event("after", top.ex))
         /\ level' = LevelAfter(level)
         /\ visit' = SubSeq(visit, 1, Len(visit) - 1)
         /\ setup' = IF Len(visit) = 1 /\ passno = Len(passes) THEN "ready" ELSE setup
  /\ UNCHANGED << executor_stack, passes, passno, stack_level, method, real,
                  _CURRENT_INDENT_STRATEGY, _CURRENT_CALL_LEVEL, out >>
  /\ UNCHANGED runVars
  /\ UNCHANGED otherVars

(* ---------------------------------------------------------------------- *)
(* Operation chains through the stack (lines 94-151, and                   *)
(* secure_federated_executor.py 26-59)                                     *)
(* ---------------------------------------------------------------------- *)

\* SecureFederatedExecutorValue(None): its type_signature property raises
MalformedValue == SecureFederatedExecutorValue(NoneValue)

\* the value the own create_* method of an executor type returns
OriginalResult(kind) ==
  CASE kind = "EagerTFExecutor" -> ExecutorValue("EagerValue", "8")
    [] kind = "ReferenceResolvingExecutor" ->
         ExecutorValue("ReferenceResolvingExecutorValue", "8")
    [] kind = "FederatingExecutor" -> ExecutorValue("FederatingExecutorValue", "8")
    [] OTHER -> ExecutorValue("CompositeValue", "8")

\* the positional arguments a caller hands to an operation:
\* create_value(value, type_spec), create_call(comp, arg),
\* create_tuple(elements), create_selection(source, index, name)
Inputs(op) ==
  CASE op = "create_value" ->
         { << IntrinsicDefValue, TensorTypeValue >>, << EmptyStrValue, NoneValue >>,
           << MalformedValue, NoneValue >> }
    [] op = "create_call" ->
         { << ExecutorValue("ReferenceResolvingExecutorValue", "8"), NoneValue >>,
           << SecureFederatedExecutorValue(ExecutorValue("FederatingExecutorValue", "8")),
              SecureFederatedExecutorValue(ExecutorValue("FederatingExecutorValue", "8")) >> }
    [] op = "create_tuple" -> { << TupleValue >> }
    [] op = "create_selection" ->
         { << ExecutorValue("ReferenceResolvingExecutorValue", "8"), IntValue, NoneValue >> }

\* the arguments a wrapper formats into its "call" line
LoggedArgs(op, args) ==
  CASE op = "create_selection" -> << args[2], args[3] >>
    [] op = "create_tuple" -> << args[1] >>
    [] OTHER -> << args[1], args[2] >>

\* what a finished coroutine hands to its awaiter: a result, or an exception
\* with the place that raised it (origin) and, for format_object, the type
\* of the value it was formatting
NoRet == [kind |-> "none", val |-> NoneValue, exc |-> "", origin |-> "", at |-> ""]
Returned(v) == [kind |-> "value", val |-> v, exc |-> "", origin |-> "", at |-> ""]
Raised(exc, origin, at) ==
  [kind |-> "error", val |-> NoneValue, exc |-> exc, origin |-> origin, at |-> at]

\* a coroutine: t is "wrapper" (a wrapper of monkey_patch_executor), "secure"
\* (a method of SecureFederatedExecutor) or "orig" (a method of another
\* executor type); inv numbers a wrapper invocation, encl is the wrapper
\* invocation it runs inside
Frame(t, n, op, args, inv, encl) ==
  [t |-> t, ex |-> n, op |-> op, args |-> args, inv |-> inv, encl |-> encl,
   pc |-> "start", called |-> 0, realArgs |-> << >>]

\* the coroutine behind binding b of executor n
Bound(b, n, op, args, inv, encl) ==
  IF b > 0 THEN Frame("wrapper", n, op, args, inv, encl)
  ELSE IF executor_stack[n].kind = "SecureFederatedExecutor"
         THEN Frame("secure", n, op, args, 0, encl)
         ELSE Frame("orig", n, op, args, 0, encl)

\* executor.<op>(args), the ncalls + 1 st operation invoked
Invoke(n, op, args, encl) == Bound(method[n][op], n, op, args, ncalls + 1, encl)

Top == frames[Len(frames)]
Pop == SubSeq(frames, 1, Len(frames) - 1)
Replace(f) == [frames EXCEPT ![Len(frames)] = f]

PrefixByCallLevel(n, lv) == [raised |-> FALSE, indent |-> lv]

\* prefix(executor), lines 97-109: the indentation, or ValueError
\* (in '  ' units), with _CURRENT_CALL_LEVEL = lv when it is evaluated
prefix(n, lv) ==
  CASE _CURRENT_INDENT_STRATEGY = "STACK_LEVEL" ->
         [raised |-> FALSE, indent |-> stack_level[n]]
    [] _CURRENT_INDENT_STRATEGY = "CALL_LEVEL" ->
         [raised |-> FALSE, indent |-> lv]
    [] OTHER -> [raised |-> TRUE, indent |-> 0]

NoIncrement(lv, op) == lv

\* global _CURRENT_CALL_LEVEL; _CURRENT_CALL_LEVEL += 1 (create_value,
\* create_call only)
LevelAtCall(lv, op) == IF op \in CountedOperations THEN lv + 1 ELSE lv

NoDecrement(lv, op) == lv

ResetToZero(lv, op) == IF op \in CountedOperations THEN 0 ELSE lv

\* _CURRENT_CALL_LEVEL -= 1 (create_value, create_call only)
LevelAtReturn(lv, op) == IF op \in CountedOperations THEN lv - 1 ELSE lv

Finished(f, outcome) ==
  [inv |-> f.inv, ex |-> f.ex, op |-> f.op, args |-> f.args, called |-> f.called,
   realArgs |-> f.realArgs, realRet |-> ret, ret |-> outcome]

\* the application calls an operation of the root of the stack the factory
\* returned, and runs it to completion before it calls the next
StartCall(op, args) ==
  /\ setup = "ready"
  /\ frames = << >>
  /\ parked = {}
  /\ ncalls < MaxCalls
  /\ nchains < MaxChains
  /\ frames' = << Invoke(Root, op, args, 0) >>
  /\ ncalls' = ncalls + 1
  /\ nchains' = nchains + 1
  /\ ret' = NoRet
  /\ pre' = _CURRENT_CALL_LEVEL
  /\ delegFailed' = FALSE
  /\ outer' = [pre |-> _CURRENT_CALL_LEVEL, raised |-> FALSE]
  /\ UNCHANGED << last, parked, lastSet, executor_stack, _CURRENT_INDENT_STRATEGY,
                  _CURRENT_CALL_LEVEL, out >>
  /\ UNCHANGED setupVars

EmitAtTop(lines, line) == << line >> \o lines

\* print(...) appends a line to the output
Emit(lines, line) == Append(lines, line)

\* a wrapper up to its await: the "call" line (the arguments of print are
\* evaluated first and may raise), the increment, and the call of
\* executor._real_<op> with the arguments received
WrapperCall ==
  /\ frames # << >>
  /\ Top.t = "wrapper"
  /\ Top.pc = "start"
  /\ LET f == Top
         pfx == prefix(f.ex, _CURRENT_CALL_LEVEL)
         logged == LoggedArgs(f.op, f.args)
         text == [i \in DOMAIN logged |-> format_object(logged[i])]
         failure == FirstRaise(text)
         b == real[f.ex][f.op]
     IN  IF pfx.raised \/ failure.tag = "raise"
           THEN /\ frames' = Pop
                /\ ret' = IF pfx.raised THEN Raised("ValueError", "prefix", "")
                          ELSE Raised(failure.exc, "format_object", failure.value)
                /\ last' = Finished(f, ret')
                /\ UNCHANGED << out, _CURRENT_CALL_LEVEL, ncalls >>
           ELSE /\ b > 0 => ncalls < MaxCalls
                /\ out' = Emit(out, Line(pfx.indent, executor_stack[f.ex].kind, f.ex, f.op,
                                         "call", logged, text, f.inv, f.encl))
                /\ _CURRENT_CALL_LEVEL' = LevelAtCall(_CURRENT_CALL_LEVEL, f.op)
                /\ frames' = Append(Replace([f EXCEPT !.pc = "await", !.called = f.called + 1,
                                                      !.realArgs = f.args]),
                                    Bound(b, f.ex, f.op, f.args, ncalls + 1, f.inv))
                /\ ncalls' = IF b > 0 THEN ncalls + 1 ELSE ncalls
                /\ UNCHANGED << ret, last >>
  /\ UNCHANGED << nchains, pre, delegFailed, executor_stack, _CURRENT_INDENT_STRATEGY >>
  /\ UNCHANGED setupVars
  /\ UNCHANGED otherVars

\* a wrapper after its await returned a result: the decrement, the "retr"
\* line, and return res
WrapperReturn ==
  /\ frames # << >>
  /\ Top.t = "wrapper"
  /\ Top.pc = "await"
  /\ ret.kind = "value"
  /\ LET f == Top
         lv == LevelAtReturn(_CURRENT_CALL_LEVEL, f.op)
         pfx == prefix(f.ex, lv)
         text == << format_object(ret.val) >>
     IN  /\ _CURRENT_CALL_LEVEL' = lv
         /\ frames' = Pop
         /\ IF pfx.raised \/ text[1].tag = "raise"
              THEN /\ ret' = IF pfx.raised THEN Raised("ValueError", "prefix", "")
                             ELSE Raised(text[1].exc, "format_object", text[1].value)
                   /\ out' = out
              ELSE /\ ret' = ret
                   /\ out' = Emit(out, Line(pfx.indent, executor_stack[f.ex].kind, f.ex, f.op,
                                            "retr", << ret.val >>, text, f.inv, f.encl))
         /\ last' = Finished(f, ret')
  /\ UNCHANGED << ncalls, nchains, pre, delegFailed, executor_stack, _CURRENT_INDENT_STRATEGY >>
  /\ UNCHANGED setupVars
  /\ UNCHANGED otherVars

\* the awaited _real_ operation raised: the exception leaves the wrapper at
\* the await, none of the wrapper's remaining statements run
WrapperRaise ==
  /\ frames # << >>
  /\ Top.t = "wrapper"
  /\ Top.pc = "await"
  /\ ret.kind = "error"
  /\ frames' = Pop
  /\ delegFailed' = TRUE
  /\ last' = Finished(Top, ret)
  /\ outer' = [outer EXCEPT !.raised = TRUE]
  /\ UNCHANGED << ret, ncalls, nchains, pre, parked, lastSet, executor_stack,
                  _CURRENT_INDENT_STRATEGY, _CURRENT_CALL_LEVEL, out >>
  /\ UNCHANGED setupVars

\* the own method of an executor type of the framework calls the same
\* operation of one of the executors it holds
OrigDelegate(child) ==
  /\ frames # << >>
  /\ Top.t = "orig"
  /\ ret.kind # "error"
  /\ ncalls < MaxCalls
  /\ child \in Targets(executor_stack[Top.ex])
  /\ frames' = Append(Replace([Top EXCEPT !.pc = "await"]),
                      Invoke(child, Top.op, Top.args, Top.encl))
  /\ ncalls' = ncalls + 1
  /\ ret' = NoRet
  /\ UNCHANGED << nchains, pre, delegFailed, last, executor_stack, _CURRENT_INDENT_STRATEGY,
                  _CURRENT_CALL_LEVEL, out >>
  /\ UNCHANGED setupVars
  /\ UNCHANGED otherVars

\* the own method of an executor type of the framework returns its value
OrigReturn ==
  /\ frames # << >>
  /\ Top.t = "orig"
  /\ ret.kind # "error"
  /\ frames' = Pop
  /\ ret' = Returned(OriginalResult(executor_stack[Top.ex].kind))
  /\ UNCHANGED << ncalls, nchains, pre, delegFailed, last, executor_stack,
                  _CURRENT_INDENT_STRATEGY, _CURRENT_CALL_LEVEL, out >>
  /\ UNCHANGED setupVars
  /\ UNCHANGED otherVars

\* the own method of an executor type of the framework raises
OrigRaise ==
  /\ frames # << >>
  /\ Top.t = "orig"
  /\ ret.kind # "error"
  /\ frames' = Pop
  /\ ret' = Raised("RuntimeError", "original", "")
  /\ UNCHANGED << ncalls, nchains, pre, delegFailed, last, executor_stack,
                  _CURRENT_INDENT_STRATEGY, _CURRENT_CALL_LEVEL, out >>
  /\ UNCHANGED setupVars
  /\ UNCHANGED otherVars

\* an exception raised by an awaited operation leaves a method that does
\* not handle it
Unwind ==
  /\ frames # << >>
  /\ Top.t \in {"orig", "secure"}
  /\ ret.kind = "error"
  /\ frames' = Pop
  /\ UNCHANGED << ret, ncalls, nchains, pre, delegFailed, last, executor_stack,
                  _CURRENT_INDENT_STRATEGY, _CURRENT_CALL_LEVEL, out >>
  /\ UNCHANGED setupVars
  /\ UNCHANGED otherVars

IsSecureValue(x) == x.ty = "SecureFederatedExecutorValue"

\* the lines a SecureFederatedExecutor method prints before it delegates
SecurePrints(n, op, args) ==
  CASE op = "create_value" /\ args[1].ty = "IntrinsicDef" ->
         << Line(0, "***", n, op, "print", << args[1] >>, << Str(args[1].str) >>, 0, 0) >>
    [] op = "create_value" /\ args[1].ty = "Computation" /\ args[1].attr = "intrinsic"
         /\ args[1].str = "federated_mean" ->
         << Line(0, "***", n, op, "print", << args[1] >>, << Str(args[1].str) >>, 0, 0) >>
    [] op = "create_tuple" ->
         << Line(0, "TYPE TYPW TPYE", n, op, "print", << args[1] >>,
                 << Str(TypeName(args[1].ty)) >>, 0, 0),
            Line(0, "ELEMENTS EKECSCDS", n, op, "print", << args[1] >>,
                 << Str(args[1].str) >>, 0, 0) >>
    [] OTHER -> << >>

\* the arguments a SecureFederatedExecutor method hands to its target
SecureArgs(op, args) ==
  CASE op = "create_call" ->
         << args[1].items[1],
            IF args[2].ty = "NoneType" THEN args[2] ELSE args[2].items[1] >>
    [] op = "create_tuple" ->
         << IF IsSecureValue(args[1]) THEN args[1].items[1] ELSE args[1] >>
    [] OTHER -> args

\* the assertions of SecureFederatedExecutor.create_call (lines 44-45)
SecureAsserts(op, args) ==
  op = "create_call" =>
    /\ IsSecureValue(args[1])
    /\ args[2].ty = "NoneType" \/ IsSecureValue(args[2])

\* a method of SecureFederatedExecutor up to its await
SecureCall ==
  /\ frames # << >>
  /\ Top.t = "secure"
  /\ Top.pc = "start"
  /\ LET f == Top
         target == executor_stack[f.ex]._target_executor
     IN  IF ~SecureAsserts(f.op, f.args)
           THEN /\ frames' = Pop
                /\ ret' = Raised("AssertionError", "assert", "")
                /\ UNCHANGED << out, ncalls >>
           ELSE /\ ncalls < MaxCalls
                /\ out' = out \o SecurePrints(f.ex, f.op, f.args)
                /\ frames' = Append(Replace([f EXCEPT !.pc = "await", !.called = f.called + 1]),
                                    Invoke(target, f.op, SecureArgs(f.op, f.args), f.encl))
                /\ ncalls' = ncalls + 1
                /\ ret' = NoRet
  /\ UNCHANGED << nchains, pre, delegFailed, last, executor_stack, _CURRENT_INDENT_STRATEGY,
                  _CURRENT_CALL_LEVEL >>
  /\ UNCHANGED setupVars
  /\ UNCHANGED otherVars

\* what a SecureFederatedExecutor method returns for the target's result
SecureResult(op, res) ==
  IF op = "create_selection" THEN res ELSE SecureFederatedExecutorValue(res)

\* a method of SecureFederatedExecutor after its await returned
SecureReturn ==
  /\ frames # << >>
  /\ Top.t = "secure"
  /\ Top.pc = "await"
  /\ ret.kind = "value"
  /\ frames' = Pop
  /\ ret' = Returned(SecureResult(Top.op, ret.val))
  /\ UNCHANGED << ncalls, nchains, pre, delegFailed, last, executor_stack,
                  _CURRENT_INDENT_STRATEGY, _CURRENT_CALL_LEVEL, out >>
  /\ UNCHANGED setupVars
  /\ UNCHANGED otherVars

(* ---------------------------------------------------------------------- *)
(* The indentation strategy (lines 76-91)                                  *)
(* ---------------------------------------------------------------------- *)

\* class IndentStrategy(Enum): STACK_LEVEL = 0, CALL_LEVEL = 1
IndentStrategy == {"STACK_LEVEL", "CALL_LEVEL"}

\* what a caller may hand to set_indent_strategy: a member of the enum, or
\* None or the int 1 (the value of CALL_LEVEL)
StrategyArguments == IndentStrategy \cup {"None", "1"}

AnyStrategy(strategy) == TRUE

\* assert type(strategy) == IndentStrategy
AcceptedStrategy(strategy) == strategy \in IndentStrategy

\* set_indent_strategy(strategy), called by the application while no pass
\* and no instrumented code is running (between operations, or while an
\* operation is suspended inside a method of the framework): the assertion
\* raises before the assignment
set_indent_strategy(strategy) ==
  /\ visit = << >>
  /\ IF frames = << >> THEN TRUE ELSE Top.t = "orig"
  /\ IF AcceptedStrategy(strategy)
       THEN /\ _CURRENT_INDENT_STRATEGY' = strategy
            /\ lastSet' = [strategy |-> strategy, raised |-> FALSE]
       ELSE /\ _CURRENT_INDENT_STRATEGY' = _CURRENT_INDENT_STRATEGY
            /\ lastSet' = [strategy |-> strategy, raised |-> TRUE]
  /\ UNCHANGED << executor_stack, _CURRENT_CALL_LEVEL, out, parked, outer >>
  /\ UNCHANGED setupVars
  /\ UNCHANGED runVars

(* ---------------------------------------------------------------------- *)
(* Concurrent operation chains (the awaits of lines 115, 127, 137, 146)    *)
(* ---------------------------------------------------------------------- *)

\* a suspended chain: its coroutines and what belongs to it
Task == [frames |-> frames, ret |-> ret, pre |-> pre, delegFailed |-> delegFailed]

\* a method of the framework awaits something that is not ready: the chain
\* is suspended in the event loop and the awaits above it stay pending
Yield ==
  /\ frames # << >>
  /\ Top.t = "orig"
  /\ Cardinality(parked) < MaxTasks
  /\ parked' = parked \cup {Task}
  /\ frames' = << >>
  /\ ret' = NoRet
  /\ UNCHANGED << ncalls, nchains, pre, delegFailed, last, lastSet, outer, executor_stack,
                  _CURRENT_INDENT_STRATEGY, _CURRENT_CALL_LEVEL, out >>
  /\ UNCHANGED setupVars

\* the event loop resumes a suspended chain
Resume(task) ==
  /\ frames = << >>
  /\ task \in parked
  /\ parked' = parked \ {task}
  /\ frames' = task.frames
  /\ ret' = task.ret
  /\ pre' = task.pre
  /\ delegFailed' = task.delegFailed
  /\ UNCHANGED << ncalls, nchains, last, lastSet, outer, executor_stack,
                  _CURRENT_INDENT_STRATEGY, _CURRENT_CALL_LEVEL, out >>
  /\ UNCHANGED setupVars

\* the suspended method of the framework has called the same operation of
\* several of the executors it holds at once (the gather of a fan-out, one
\* call per target): the call on child starts a chain of its own
SpawnCall(task, child) ==
  /\ frames = << >>
  /\ task \in parked
  /\ ncalls < MaxCalls
  /\ LET f == task.frames[Len(task.frames)]
     IN  /\ child \in Targets(executor_stack[f.ex])
         /\ frames' = << Invoke(child, f.op, f.args, f.encl) >>
  /\ ncalls' = ncalls + 1
  /\ ret' = NoRet
  /\ pre' = _CURRENT_CALL_LEVEL
  /\ delegFailed' = FALSE
  /\ UNCHANGED << nchains, last, parked, lastSet, outer, executor_stack,
                  _CURRENT_INDENT_STRATEGY, _CURRENT_CALL_LEVEL, out >>
  /\ UNCHANGED setupVars

RunNext ==
  \/ \E op \in Operations : \E args \in Inputs(op) : StartCall(op, args)
  \/ WrapperCall
  \/ WrapperReturn
  \/ WrapperRaise
  \/ \E child \in Executors : OrigDelegate(child)
  \/ OrigReturn
  \/ OrigRaise
  \/ Unwind
  \/ SecureCall
  \/ SecureReturn

SetupNext == BeginPass \/ VisitBefore \/ VisitChild \/ VisitAfter

Next == SetupNext \/ RunNext

Spec == Init /\ [][Next]_vars

\* the factory call alone: the passes of the decorators over the new stack
SpecVisit == Init /\ [][SetupNext]_vars

\* dumping_executor_fn and monkey_patching_executor_fn composed by hand, as
\* set_default_executor composes them: the two orders, and
\* dumping_executor_fn applied twice
Compositions == { << "patch", "dump" >>, << "dump", "patch" >>, << "dump", "dump" >> }

InitCompose == \E ps \in Compositions : Installed(ps, ImportedStrategy)

SpecCompose == InitCompose /\ [][SetupNext]_vars

\* the stacks of simple.py's factories without clients: a fan-out to the
\* unconditional and the server stack
SmallStacks == { builtin_executor_stack(0), secure_executor_stack(0) }

\* operation chains interleave at the awaits of the framework's methods
NextConcurrent ==
  \/ Next
  \/ Yield
  \/ \E task \in parked : Resume(task)
  \/ \E task \in parked : \E child \in Executors : SpawnCall(task, child)

\* the application has chosen STACK_LEVEL before the stack was built
InitConcurrent ==
  /\ Installed(set_default_executor, "STACK_LEVEL")
  /\ executor_stack \in SmallStacks

SpecConcurrent == InitConcurrent /\ [][NextConcurrent]_vars

\* the application also reconfigures the indentation
NextIndent == Next \/ \E strategy \in StrategyArguments : set_indent_strategy(strategy)

\* the indentation strategy is configured independently of the stack's
\* fan-out
InitIndent ==
  /\ Init
  /\ executor_stack \in SmallStacks

SpecIndent == InitIndent /\ [][NextIndent]_vars

\* monkey_patching_executor_fn applied to a factory that
\* monkey_patching_executor_fn has already decorated: two patch passes over
\* the stack the innermost executor_fn built
PatchTwice == << "patch", "patch" >>

\* a stack in which one stage is reachable along two paths: the bottom stack
\* is both the parent executor and the child of a ComposingExecutor
shared_executor_stack ==
  LET bottom == _create_bottom_stack(<< >>)
  IN  Append(bottom, ComposingExecutor(Len(bottom), << Len(bottom) >>))

\* the same below a SecureFederatedExecutor
shared_secure_stack ==
  Append(shared_executor_stack, SecureFederatedExecutor(Len(shared_executor_stack)))

SharedStacks == { shared_executor_stack, shared_secure_stack }

\* a stage is instrumented a second time: by a second patch pass over the
\* whole stack, or by one patch pass that meets the stage twice
InitTwice ==
  \/ InstalledOn(SmallStacks, PatchTwice, ImportedStrategy)
  \/ InstalledOn(SharedStacks, << "patch" >>, ImportedStrategy)

SpecTwice == InitTwice /\ [][Next]_vars

\* the SecureFederatedExecutor of a stack that holds one
SecureStage ==
  CHOOSE n \in Executors : executor_stack[n].kind = "SecureFederatedExecutor"

\* the values the operations of the SecureFederatedExecutor return when the
\* operation they delegate to succeeds
StageResults ==
  LET inner == executor_stack[SecureStage]._target_executor
  IN  { SecureResult(o, OriginalResult(executor_stack[inner].kind)) : o \in Operations }

\* a Python list with the one element x
ListOf(x) == Value("list", "[" \o x.str \o "]", "5" \o x.id, Absent, << x >>, "", << >>)

\* the operations that take values of the stage as arguments
StageOperations == {"create_call", "create_tuple", "create_selection"}

\* arguments that are results of earlier operations on the stage: the
\* ReferenceResolvingExecutor above the SecureFederatedExecutor hands the
\* stage the values it received from it
StageInputs(op) ==
  CASE op = "create_call" ->
         { << r, NoneValue >> : r \in StageResults } \cup { << r, r >> : r \in StageResults }
    [] op = "create_tuple" ->
         { << ListOf(r) >> : r \in StageResults } \cup { << r >> : r \in StageResults }
    [] op = "create_selection" -> { << r, IntValue, NoneValue >> : r \in StageResults }

NextStage ==
  \/ Next
  \/ \E op \in StageOperations : \E args \in StageInputs(op) : StartCall(op, args)

InitStage == InstalledOn({ secure_executor_stack(0) }, set_default_executor, ImportedStrategy)

SpecStage == InitStage /\ [][NextStage]_vars

(* ---------------------------------------------------------------------- *)
(* Properties of the visitor                                               *)
(* ---------------------------------------------------------------------- *)

RECURSIVE Descendants(_)
\* the executors below executor n in the stack, by the attributes that hold them
Descendants(n) ==
  LET held == Targets(executor_stack[n])
  IN  held \cup UNION { Descendants(c) : c \in held }

AllRegistered == \A n \in Executors : executor_stack[n].kind \in VISIT_RECURSION_STRATEGIES

RECURSIVE CountCallbacks(_, _, _, _)
\* the number of callbacks cb of pass p on executor n at or after position k
CountCallbacks(p, cb, n, k) ==
  IF k > Len(events) THEN 0
  ELSE (IF events[k] = [pass |-> p, cb |-> cb, ex |-> n] THEN 1 ELSE 0)
       + CountCallbacks(p, cb, n, k + 1)

RECURSIVE Positions(_, _, _, _)
\* the position in events of the first callback cb of pass p, by executor
\* (0 when there is none): tab updated with the events from position k on
Positions(p, cb, tab, k) ==
  IF k > Len(events) THEN tab
  ELSE Positions(p, cb,
                 IF events[k].pass = p /\ events[k].cb = cb /\ tab[events[k].ex] = 0
                   THEN [tab EXCEPT ![events[k].ex] = k] ELSE tab,
                 k + 1)

RECURSIVE Counts(_, _, _, _)
\* the number of callbacks cb of pass p, by executor
Counts(p, cb, tab, k) ==
  IF k > Len(events) THEN tab
  ELSE Counts(p, cb,
              IF events[k].pass = p /\ events[k].cb = cb
                THEN [tab EXCEPT ![events[k].ex] = tab[events[k].ex] + 1] ELSE tab,
              k + 1)

Zeros == [n \in Executors |-> 0]

RECURSIVE Sum(_, _)
\* tab[1] + ... + tab[upto]
Sum(tab, upto) == IF upto = 0 THEN 0 ELSE tab[upto] + Sum(tab, upto - 1)

PassComplete(p) == p < passno \/ (p = passno /\ visit = << >> /\ setup # "failed")

\* C1: on a stack whose executor types all have a recursion strategy, a pass
\* of visit_executor_stack calls visit_before and visit_after at most once
\* per executor while it runs and exactly once per executor of the stack
\* when it has returned (so both totals equal the number of executors); an
\* executor's visit_before precedes, and its visit_after follows, every
\* callback on the executors below it.
C1_VisitEachOnceNested ==
  AllRegistered =>
    \A p \in 1..passno :
      \A before \in {Positions(p, "before", Zeros, 1)} :
      \A after \in {Positions(p, "after", Zeros, 1)} :
      \A nbefore \in {Counts(p, "before", Zeros, 1)} :
      \A nafter \in {Counts(p, "after", Zeros, 1)} :
          /\ \A n \in Executors :
                /\ nbefore[n] <= 1
                /\ nafter[n] <= 1
                /\ \A d \in Descendants(n) : \A i \in {before[d], after[d]} \ {0} :
                     /\ before[n] # 0 /\ before[n] < i
                     /\ after[n] # 0 => i < after[n]
          /\ PassComplete(p) =>
                /\ {Root} \cup Descendants(Root) = Executors
                /\ \A n \in Executors : nbefore[n] = 1 /\ nafter[n] = 1
                /\ Sum(nbefore, Root) = Cardinality(Executors)
                /\ Sum(nafter, Root) = Cardinality(Executors)

\* a pass has returned from a federated stack with two clients
C1_Witness ==
  /\ AllRegistered
  /\ PassComplete(1)
  /\ passno >= 1
  /\ Cardinality(Executors) >= 8

\* C2: when the recursion strategy of an executor returns [c1, ..., cn], the
\* whole subtree of ci (every callback on ci and below, its visit_after
\* included) is visited before visit_before of c(i+1): never reversed,
\* sorted or interleaved.
C2_ChildrenInStrategyOrder ==
  \A p \in 1..passno :
    \A before \in {Positions(p, "before", Zeros, 1)} :
    \A after \in {Positions(p, "after", Zeros, 1)} :
        \A n \in Executors :
          executor_stack[n].kind \in VISIT_RECURSION_STRATEGIES =>
            LET cs == RecursionStrategy(executor_stack[n])
            IN  \A i, j \in DOMAIN cs :
                  i < j /\ before[cs[j]] # 0 =>
                    /\ after[cs[i]] # 0 /\ after[cs[i]] < before[cs[j]]
                    /\ \A d \in {cs[i]} \cup Descendants(cs[i]) :
                         /\ before[d] # 0 /\ before[d] < before[cs[j]]
                         /\ after[d] # 0 /\ after[d] < before[cs[j]]

\* a pass has returned from a stack in which a strategy returned children
\* that are not in the order of their creation
C2_Witness ==
  /\ PassComplete(1)
  /\ passno >= 1
  /\ \E n \in Executors :
       /\ executor_stack[n].kind \in VISIT_RECURSION_STRATEGIES
       /\ LET cs == RecursionStrategy(executor_stack[n])
          IN  Len(cs) >= 3 /\ cs[1] > cs[2]

\* the executors of S in the order pass p called visit_before on them
RECURSIVE BeforeOrder(_, _, _)
BeforeOrder(p, S, k) ==
  IF k > Len(events) THEN << >>
  ELSE (IF events[k].pass = p /\ events[k].cb = "before" /\ events[k].ex \in S
          THEN << events[k].ex >> ELSE << >>) \o BeforeOrder(p, S, k + 1)

\* C3: the strategy of a FederatingExecutor returns the unconditional (None)
\* group, then the server group, then the clients in index order; a visit
\* of a fan-out with one unconditional, one server and n clients calls
\* visit_before on unconditional, server, clients[0], ..., clients[n-1].
C3_FederatingOrder ==
  \A n \in Executors :
    executor_stack[n].kind = "FederatingExecutor" =>
      LET t == executor_stack[n]._target_executors
          expected == t.None \o t.SERVER \o t.CLIENTS
      IN  /\ RecursionStrategy(executor_stack[n]) = expected
          /\ Len(t.None) = 1 /\ Len(t.SERVER) = 1
          /\ \A i, j \in DOMAIN t.CLIENTS : i < j => t.CLIENTS[i] < t.CLIENTS[j]
          /\ \A p \in 1..passno :
               PassComplete(p) /\ AllRegistered =>
                 BeforeOrder(p, Targets(executor_stack[n]), 1) = expected

\* a pass has returned from a fan-out with two or more clients
C3_Witness ==
  /\ PassComplete(1)
  /\ passno >= 1
  /\ AllRegistered
  /\ \E n \in Executors :
       /\ executor_stack[n].kind = "FederatingExecutor"
       /\ Len(executor_stack[n]._target_executors.CLIENTS) >= 2

\* C10: a stack that holds an executor whose type has no recursion strategy
\* makes the traversal fail: visit_after is never called on that executor
\* (it is not treated as a leaf), the pass that reaches it raises, the
\* factory never returns the stack, and no operation of the stack is called.
C10_MissingStrategyFatal ==
  \A n \in Executors :
    executor_stack[n].kind \notin VISIT_RECURSION_STRATEGIES =>
      /\ \A p \in 1..passno : CountCallbacks(p, "after", n, 1) = 0
      /\ (\E p \in 1..passno : CountCallbacks(p, "before", n, 1) > 0) => setup = "failed"
      /\ setup # "ready"
      /\ ncalls = 0
      /\ frames = << >>

\* the traversal reached the executor without a strategy and raised
C10_Witness ==
  /\ setup = "failed"
  /\ \E n \in Executors :
       /\ executor_stack[n].kind \notin VISIT_RECURSION_STRATEGIES
       /\ CountCallbacks(1, "before", n, 1) > 0

(* ---------------------------------------------------------------------- *)
(* Properties of the wrappers                                              *)
(* ---------------------------------------------------------------------- *)

\* the operation the application called has returned or raised
ChainDone == frames = << >> /\ ret.kind # "none"

\* C4: when the outermost call of a chain of instrumented operations has
\* completed and no wrapper of the chain saw the operation it delegated to
\* raise, _CURRENT_CALL_LEVEL has the value it had before that call.
C4_CallLevelRestored ==
  ChainDone /\ ~delegFailed => _CURRENT_CALL_LEVEL = pre

\* a create_value / create_call chain two wrappers deep has returned
C4_Witness ==
  /\ ChainDone
  /\ ~delegFailed
  /\ ret.kind = "value"
  /\ last.op \in CountedOperations
  /\ \E i \in DOMAIN out :
       out[i].phase = "retr" /\ out[i].encl # 0 /\ out[i].indent = pre + 1

\* C5: when the original operation behind an instrumented create_value or
\* create_call raises, _CURRENT_CALL_LEVEL is back at its value from before
\* the call once the error has reached the caller.
C5_DecrementOnFailure ==
  ChainDone /\ ret.kind = "error" /\ ret.origin = "original"
    => _CURRENT_CALL_LEVEL = pre

\* C6: every "call" or "retr" line of an instrumented operation that runs
\* inside another instrumented operation comes after the "call" line of
\* that enclosing operation and before its "retr" line.
C6_CallRetrNested ==
  \A i \in DOMAIN out :
    out[i].encl # 0 =>
      /\ \E j \in 1..(i - 1) : out[j].phase = "call" /\ out[j].inv = out[i].encl
      /\ \A k \in 1..i : ~(out[k].phase = "retr" /\ out[k].inv = out[i].encl)

\* an operation and the operation it delegated to have both printed "retr"
C6_Witness ==
  \E i, j \in DOMAIN out :
    /\ i < j
    /\ out[i].phase = "retr" /\ out[i].encl # 0
    /\ out[j].phase = "retr" /\ out[j].inv = out[i].encl

\* C7: a wrapper that has finished called executor._real_<op> exactly once,
\* with the arguments it received, and returned or raised exactly what that
\* call returned or raised.
C7_Transparent ==
  last.inv # 0 =>
    /\ last.called = 1
    /\ last.realArgs = last.args
    /\ last.ret = last.realRet

\* C8: format_object of a value whose type has no registered strategy does
\* not raise and gives a non-empty string: every such value a wrapper
\* formatted appears in its line as a non-empty string, and no exception of
\* format_object comes from such a value.
C8_DefaultNeverFails ==
  /\ \A i \in DOMAIN out : \A k \in DOMAIN out[i].text :
       out[i].phase \in {"call", "retr"}
         /\ out[i].args[k].ty \notin FORMATTING_STRATEGIES
         => out[i].text[k].tag = "str" /\ Len(out[i].text[k].s) > 0
  /\ ret.origin = "format_object" => ret.at \in FORMATTING_STRATEGIES

\* a wrapper printed a value of an unregistered type whose str() is empty
C8_Witness ==
  \E i \in DOMAIN out :
    /\ out[i].phase = "call"
    /\ out[i].args[1] = EmptyStrValue
    /\ out[i].text[1].tag = "str"

\* C9: a wrapper that was handed a value its registered strategy fails on
\* still calls the original operation and returns what it returned.
C9_FormattingAbsorbed ==
  last.inv # 0
    /\ (\E k \in DOMAIN LoggedArgs(last.op, last.args) :
          LoggedArgs(last.op, last.args)[k] = MalformedValue)
    => /\ last.called = 1
       /\ last.ret = last.realRet
       /\ last.ret.origin # "format_object"

(* ---------------------------------------------------------------------- *)
(* Properties of the configuration                                         *)
(* ---------------------------------------------------------------------- *)

\* C11: set_indent_strategy with anything that is not a member of
\* IndentStrategy fails and leaves the active strategy as it was: the active
\* strategy is always STACK_LEVEL or CALL_LEVEL, after a rejected call it is
\* not the rejected argument, and no instrumented operation ever gets the
\* "Unknown indentation strategy" ValueError of prefix.
C11_UnknownStrategyRejected ==
  /\ _CURRENT_INDENT_STRATEGY \in IndentStrategy
  /\ lastSet.raised <=> lastSet.strategy \in StrategyArguments \ IndentStrategy
  /\ ~lastSet.raised /\ lastSet # NotSet => _CURRENT_INDENT_STRATEGY = lastSet.strategy
  /\ ret.origin # "prefix"
  /\ \A t \in parked : t.ret.origin # "prefix"

\* a call with a non-member has been rejected, STACK_LEVEL is still the
\* active strategy and an instrumented operation has printed and returned
C11_Witness ==
  /\ lastSet.raised
  /\ _CURRENT_INDENT_STRATEGY = "STACK_LEVEL"
  /\ ChainDone
  /\ ret.kind = "value"
  /\ \E i \in DOMAIN out : out[i].phase = "retr"

(* ---------------------------------------------------------------------- *)
(* Properties of the decorators                                            *)
(* ---------------------------------------------------------------------- *)

RECURSIVE Preorder(_), PreorderAll(_)
\* the executors of the subtree of n, parents first, children in the order
\* of the recursion strategy
Preorder(n) == << n >> \o PreorderAll(RecursionStrategy(executor_stack[n]))
PreorderAll(children) ==
  IF children = << >> THEN << >>
  ELSE Preorder(Head(children)) \o PreorderAll(Tail(children))

\* C12: dumping_executor_fn(monkey_patching_executor_fn(f))(m) and
\* monkey_patching_executor_fn(dumping_executor_fn(f))(m) return the same
\* tree: in either order both passes walk the executors f built, all of
\* them and in the same (strategy) order, and every operation of every
\* executor is wrapped exactly once, around the class's own method.
C12_DecoratorsCommute ==
  setup = "ready" /\ AllRegistered /\ passes \in { << "patch", "dump" >>, << "dump", "patch" >> }
    => /\ BeforeOrder(1, Executors, 1) = Preorder(Root)
       /\ BeforeOrder(2, Executors, 1) = Preorder(Root)
       /\ Len(Preorder(Root)) = Len(executor_stack)
       /\ \A n \in Executors : \A o \in Operations :
            method[n][o] = 1 /\ real[n][o] = 0

\* the factory decorated in the order set_default_executor does not use
\* (dump first, then patch) has returned a federated stack with clients
C12_Witness ==
  /\ setup = "ready"
  /\ passes = << "dump", "patch" >>
  /\ \E n \in Executors :
       /\ executor_stack[n].kind = "FederatingExecutor"
       /\ Len(executor_stack[n]._target_executors.CLIENTS) >= 2

\* the dump pass has printed the line of executor n
Dumped(n) ==
  \E i \in DOMAIN out : out[i].op = "dump_executor_stack" /\ out[i].hash = n

\* the instrumentation pass has patched executor n
Patched(n) == stack_level[n] # -1 /\ \A o \in Operations : method[n][o] > 0

\* C13: for every stack the factory installed by set_default_executor
\* builds, the dump pass over the stack runs before the instrumentation
\* pass (no executor is patched before every executor has been dumped), and
\* only after both is the stack handed to the execution context.
C13_DumpBeforePatch ==
  /\ (\E n \in Executors : Patched(n)) => \A m \in Executors : Dumped(m)
  /\ setup = "ready" => \A m \in Executors : Patched(m) /\ Dumped(m)
  /\ ncalls > 0 => setup = "ready"

\* C13 as amended: the instrumentation pass runs before the dump pass (no
\* line of the dump, "Created executor stack" included, is printed before
\* every executor has been patched), and only after both is the stack
\* handed to the execution context.
C13_PatchBeforeDump ==
  /\ (\E i \in DOMAIN out : out[i] = CreatedLine) => \A m \in Executors : Patched(m)
  /\ (\E n \in Executors : Dumped(n)) => \A m \in Executors : Patched(m)
  /\ setup = "ready" => \A m \in Executors : Patched(m) /\ Dumped(m)
  /\ ncalls > 0 => setup = "ready"

\* the dump pass is under way on a stack of several executors, and has
\* printed some of them but not all
C13_Witness ==
  /\ setup = "building"
  /\ \E n \in Executors : Dumped(n)
  /\ \E m \in Executors : ~Dumped(m)
  /\ \A m \in Executors : Patched(m)

(* ---------------------------------------------------------------------- *)
(* Properties of SecureFederatedExecutor                                   *)
(* ---------------------------------------------------------------------- *)

\* C14: each of the four operations of SecureFederatedExecutor, called with
\* arguments its assertions accept, calls the same operation of its
\* _target_executor, once, and returns that operation's result wrapped in a
\* SecureFederatedExecutorValue: no operation returns the target's value
\* un-wrapped.
C14_SecureDelegatesAndRewraps ==
  [][ (frames # << >> /\ Top.t = "secure") =>
        /\ (Top.pc = "start" /\ SecureAsserts(Top.op, Top.args)) =>
              /\ Len(frames') = Len(frames) + 1
              /\ frames'[Len(frames')].ex = executor_stack[Top.ex]._target_executor
              /\ frames'[Len(frames')].op = Top.op
        /\ (Top.pc = "await" /\ ret.kind = "value" /\ Len(frames') < Len(frames)) =>
              /\ Top.called = 1
              /\ ret'.kind = "value"
              /\ ret'.val = SecureFederatedExecutorValue(ret.val)
    ]_vars

(* ---------------------------------------------------------------------- *)
(* Properties of the indentation                                           *)
(* ---------------------------------------------------------------------- *)

\* executor m holds executor n in one of its attributes
Holds(m, n) ==
  LET ex == executor_stack[m]
  IN  \/ ex._target_executor = n
      \/ ex._parent_executor = n
      \/ \E i \in DOMAIN ex._child_executors : ex._child_executors[i] = n
      \/ \E i \in DOMAIN ex._target_executors.None : ex._target_executors.None[i] = n
      \/ \E i \in DOMAIN ex._target_executors.SERVER : ex._target_executors.SERVER[i] = n
      \/ \E i \in DOMAIN ex._target_executors.CLIENTS : ex._target_executors.CLIENTS[i] = n

\* the executor that holds executor n (the root holds itself)
Holder(n) ==
  IF \E m \in Executors : Holds(m, n)
    THEN CHOOSE m \in Executors : Holds(m, n)
    ELSE n

RECURSIVE Depth(_)
\* the number of executors above executor n in the stack
Depth(n) == IF Holder(n) = n THEN 0 ELSE 1 + Depth(Holder(n))

\* C15: under STACK_LEVEL every "call" and "retr" line of an executor is
\* indented by the stack_level the instrumentation pass gave the executor,
\* which is its depth in the stack, however the chains of concurrently
\* running operations interleave and whatever _CURRENT_CALL_LEVEL is.
C15_StackLevelIndentation ==
  _CURRENT_INDENT_STRATEGY = "STACK_LEVEL" =>
    \A i \in DOMAIN out :
      out[i].phase \in {"call", "retr"} =>
        /\ out[i].indent = stack_level[out[i].hash]
        /\ out[i].indent = Depth(out[i].hash)

\* two chains have interleaved: an executor below the suspended method
\* printed its "call" line, the suspended chain then resumed and printed a
\* "retr" line, and only then did the executor below print its "retr" line
C15_Witness ==
  /\ _CURRENT_INDENT_STRATEGY = "STACK_LEVEL"
  /\ \E i, j, k \in DOMAIN out :
       /\ i < j /\ j < k
       /\ out[i].phase = "call" /\ out[k].phase = "retr" /\ out[k].inv = out[i].inv
       /\ out[j].phase = "retr" /\ Depth(out[j].hash) < Depth(out[i].hash)
       /\ out[j].inv < out[i].inv

(* ---------------------------------------------------------------------- *)
(* Properties of the dump                                                  *)
(* ---------------------------------------------------------------------- *)

\* the number of lines one dump of the stack prints, with its header
DumpLength == 1 + Len(executor_stack)

\* C16: a second dump of a stack that was not changed in between prints
\* the lines the first dump printed, in the same order and with the same
\* indentation (line by line while it runs, and as many when it is done),
\* one line per executor in visiting order, and the dumps leave the
\* executors' attributes and operations as they were.
C16_DumpRepeatable ==
  passes = << "dump", "dump" >> /\ AllRegistered =>
    /\ \A i \in DOMAIN out : i > DumpLength => out[i] = out[i - DumpLength]
    /\ setup = "ready" =>
         /\ Len(out) = 2 * DumpLength
         /\ \A i \in 1..Len(executor_stack) :
              /\ out[i + 1].hash = Preorder(Root)[i]
              /\ out[i + 1].indent = Depth(Preorder(Root)[i])
    /\ \A n \in Executors :
         /\ stack_level[n] = -1
         /\ \A o \in Operations : method[n][o] = 0 /\ real[n][o] = -1

\* a federated stack with clients has been dumped twice
C16_Witness ==
  /\ passes = << "dump", "dump" >>
  /\ setup = "ready"
  /\ Len(out) = 2 * DumpLength
  /\ \E i \in DOMAIN out : out[i].indent = 3

(* ---------------------------------------------------------------------- *)
(* Properties of the call-level counter                                    *)
(* ---------------------------------------------------------------------- *)

RECURSIVE Awaiting(_)
\* the wrappers among the coroutines fs that are at their await
Awaiting(fs) ==
  IF fs = << >> THEN 0
  ELSE (IF Head(fs).t = "wrapper" /\ Head(fs).pc = "await" THEN 1 ELSE 0) + Awaiting(Tail(fs))

\* C17: _CURRENT_CALL_LEVEL is the number of instrumented operations
\* (create_value, create_call, create_tuple, create_selection) that are
\* waiting for their original operation.
C17_CounterIsInFlightCount ==
  parked = {} => _CURRENT_CALL_LEVEL = Awaiting(frames)

(* ---------------------------------------------------------------------- *)
(* Properties of the instrumentation pass                                  *)
(* ---------------------------------------------------------------------- *)

\* C18: monkey_patch_executor_stack gives every executor its depth in the
\* stack as stack_level (the root 0, an executor one more than the executor
\* that holds it, so siblings the same), and the visitor's level is 0 again
\* when the traversal has returned.
C18_StackLevelIsDepth ==
  AllRegistered =>
    /\ \A n \in Executors : stack_level[n] \in {-1, Depth(n)}
    /\ \A p \in 1..passno :
         passes[p] = "patch" /\ PassComplete(p) =>
           /\ stack_level[Root] = 0
           /\ \A n \in Executors : \A c \in Targets(executor_stack[n]) :
                stack_level[c] = stack_level[n] + 1
           /\ \A n \in Executors :
                LET cs == RecursionStrategy(executor_stack[n])
                IN  \A i, j \in DOMAIN cs : stack_level[cs[i]] = stack_level[cs[j]]
    /\ visit = << >> => level = 0

\* the instrumentation pass has returned from a federated stack with
\* clients, whose deepest executors are three below the root
C18_Witness ==
  /\ passno >= 1
  /\ passes[1] = "patch"
  /\ PassComplete(1)
  /\ \E n, m \in Executors : n # m /\ stack_level[n] = 3 /\ stack_level[m] = 3

\* C19: after the instrumentation pass every executor has, for each of its
\* four operations, the original operation as _real_<operation>, which is
\* not the wrapper installed as <operation>; a wrapper that awaits has
\* called exactly that original: the coroutine it waits for is the
\* executor's own method of the same operation.
C19_RealReachable ==
  /\ \A n \in Executors : Patched(n) =>
       \A o \in Operations :
         /\ real[n][o] # -1
         /\ real[n][o] # method[n][o]
         /\ real[n][o] = 0
  /\ \A i \in DOMAIN frames :
       frames[i].t = "wrapper" /\ frames[i].pc = "await" /\ i < Len(frames) =>
         /\ frames[i + 1].t \in {"orig", "secure"}
         /\ frames[i + 1].ex = frames[i].ex
         /\ frames[i + 1].op = frames[i].op

\* the wrapper of a SecureFederatedExecutor operation awaits the class's
\* own method
C19_Witness ==
  /\ setup = "ready"
  /\ \E i \in DOMAIN frames :
       /\ frames[i].t = "wrapper" /\ frames[i].pc = "await" /\ i < Len(frames)
       /\ frames[i + 1].t = "secure"

(* ---------------------------------------------------------------------- *)
(* Properties of format_object                                             *)
(* ---------------------------------------------------------------------- *)

\* C20: format_object gives a display string for every value a wrapper
\* logs as an argument or a result, None, floats, and lists and tuples of
\* such values included: every formatted value of a "call" or "retr" line
\* is a string, never a container of strings.
C20_FormatReturnsString ==
  \A i \in DOMAIN out :
    out[i].phase \in {"call", "retr"} =>
      \A k \in DOMAIN out[i].text : out[i].text[k].tag = "str"

(* ---------------------------------------------------------------------- *)
(* Properties of the counter under concurrency                             *)
(* ---------------------------------------------------------------------- *)

\* every chain of the application's call has completed
AllChainsDone == frames = << >> /\ parked = {} /\ ret.kind # "none"

\* C21: while chains of one call of the application interleave at the
\* awaits of the framework's methods, _CURRENT_CALL_LEVEL never is
\* negative, and when every chain has completed and no awaited operation
\* has raised it is what it was when the application made the call.
C21_CounterSurvivesInterleaving ==
  /\ _CURRENT_CALL_LEVEL >= 0
  /\ AllChainsDone /\ ~outer.raised => _CURRENT_CALL_LEVEL = outer.pre

\* all chains have completed without a failure after a counted operation
\* below the suspended method printed its "call" line, the suspended chain
\* resumed and printed a "retr" line, and the operation below then printed
\* its "retr" line
C21_Witness ==
  /\ AllChainsDone
  /\ ~outer.raised
  /\ ret.kind = "value"
  /\ \E i, j, k \in DOMAIN out :
       /\ i < j /\ j < k
       /\ out[i].phase = "call" /\ out[i].op \in CountedOperations
       /\ out[k].phase = "retr" /\ out[k].inv = out[i].inv
       /\ out[j].phase = "retr" /\ out[j].inv < out[i].inv
       /\ out[j].inv = out[i].encl

\* a "call" or "retr" line of a create_value or create_call wrapper
CountedLine(i) ==
  out[i].phase \in {"call", "retr"} /\ out[i].op \in CountedOperations

\* C22: under CALL_LEVEL, in chains of create_value / create_call
\* operations that run one at a time, the "call" line and the "retr" line
\* of one operation have the same indentation, and the lines of an
\* operation it directly delegates to are indented one level more.
C22_CallLevelIndentation ==
  _CURRENT_INDENT_STRATEGY = "CALL_LEVEL" /\ parked = {} =>
    \A i \in DOMAIN out : CountedLine(i) =>
      \A j \in DOMAIN out : CountedLine(j) =>
        /\ out[j].inv = out[i].inv => out[j].indent = out[i].indent
        /\ out[j].encl = out[i].inv => out[j].indent = out[i].indent + 1

\* a create_call chain through the SecureFederatedExecutor has returned:
\* three wrappers deep, each with its "call" and "retr" line
C22_Witness ==
  /\ _CURRENT_INDENT_STRATEGY = "CALL_LEVEL"
  /\ ChainDone
  /\ ret.kind = "value"
  /\ \E a, b, c, d \in DOMAIN out :
       /\ out[a].op = "create_call" /\ out[a].phase = "call" /\ out[a].encl = 0
       /\ out[b].phase = "call" /\ out[b].encl = out[a].inv
       /\ out[b].type = "SecureFederatedExecutor"
       /\ out[c].phase = "retr" /\ out[c].inv = out[b].inv
       /\ out[d].phase = "retr" /\ out[d].inv = out[a].inv
       /\ out[c].indent = out[d].indent + 1

\* monkey_patch_executor has run twice on executor n
PatchedTwice(n) == \A o \in Operations : method[n][o] = 2

\* C23: instrumenting a stage a second time is not idempotent.  The second
\* monkey_patch_executor stores the first wrapper in _real_<operation>, so
\* neither the method nor _real_<operation> is the original any more; a call
\* on such a stage only ever runs wrappers of that stage, every wrapper that
\* has reached its await has another wrapper of the same stage and operation
\* above it, and no "retr" line of the stage is ever printed.
C23_SecondPatchLosesOriginal ==
  /\ \A n \in Executors : \A o \in Operations : method[n][o] >= 2 => real[n][o] = 1
  /\ \A i \in DOMAIN frames :
       PatchedTwice(frames[i].ex) =>
         /\ frames[i].t = "wrapper"
         /\ frames[i].pc = "await" =>
              /\ i < Len(frames)
              /\ frames[i + 1].t = "wrapper"
              /\ frames[i + 1].ex = frames[i].ex
              /\ frames[i + 1].op = frames[i].op
  /\ \A i \in DOMAIN out : out[i].phase = "retr" => ~PatchedTwice(out[i].hash)

\* one call has entered the wrappers of a twice instrumented stage three
\* times, and the counter has grown with each entry
C23_Witness ==
  /\ Len(frames) >= 3
  /\ \E i \in DOMAIN frames :
       /\ i + 2 <= Len(frames)
       /\ PatchedTwice(frames[i].ex)
       /\ frames[i].op \in CountedOperations
       /\ \A k \in i..(i + 2) : frames[k].t = "wrapper" /\ frames[k].ex = frames[i].ex
       /\ frames[i + 1].inv # frames[i + 2].inv
       /\ _CURRENT_CALL_LEVEL >= outer.pre + 2

\* x is a SecureFederatedExecutorValue, or a list or tuple that holds one
HoldsSecureValue(x) ==
  \/ IsSecureValue(x)
  \/ x.ty \in {"list", "tuple"} /\ \E k \in DOMAIN x.items : IsSecureValue(x.items[k])

\* C24: whatever SecureFederatedExecutor hands to its inner stage in
\* create_call, create_tuple or create_selection has been unwrapped: the
\* operation its method awaits has no SecureFederatedExecutorValue among its
\* arguments, nor among the elements of a list or tuple argument.
C24_InnerNeverReceivesSecureValue ==
  \A i \in DOMAIN frames :
    (i > 1 /\ frames[i - 1].t = "secure" /\ frames[i - 1].pc = "await"
       /\ frames[i].op \in StageOperations) =>
      \A k \in DOMAIN frames[i].args : ~HoldsSecureValue(frames[i].args[k])

====
